---- MODULE Spec2Model ----
(***************************************************************************)
(* Model of worlds/netdebug/NetDebugClient.py: the console commands of     *)
(* DebugCommandProcessor (manget, manset, mansub, allhints), the           *)
(* fire-and-forget send tasks they start, DebugContext.send_msgs and the   *)
(* notification handler DebugContext.on_package.                           *)
(*                                                                         *)
(* A Python str is a sequence of one-character strings, so that split,     *)
(* startswith, the two regular expressions and json.loads are computed     *)
(* character by character.  A JSON-like value is a record                  *)
(* [kind, val] with kind in "str", "int", "bool", "null", "list", "dict".  *)
(***************************************************************************)
EXTENDS Integers, Sequences, FiniteSets, TLC

(***************************************************************************)
(* Bounds of the model.                                                    *)
(***************************************************************************)
\* number of handler invocations (console commands and inbound packets)
MaxSteps == 2
\* largest size of the session's player-name table (slot 0 included)
MaxPlayers == 3

(***************************************************************************)
(* Python str primitives.                                                  *)
(***************************************************************************)
\* str.isspace() for the characters a console line can hold
IsSpace(c) == c \in {" ", "\t", "\n", "\r"}

\* str.startswith(prefix)
StartsWith(s, prefix) ==
    /\ Len(s) >= Len(prefix)
    /\ SubSeq(s, 1, Len(prefix)) = prefix

\* index of the first position >= i of s that is not whitespace (Len(s)+1 if none)
RECURSIVE SkipSpace(_, _)
SkipSpace(s, i) ==
    IF i <= Len(s) /\ IsSpace(s[i]) THEN SkipSpace(s, i + 1) ELSE i

\* index of the first position >= i of s that is whitespace (Len(s)+1 if none)
RECURSIVE SkipWord(_, _)
SkipWord(s, i) ==
    IF i <= Len(s) /\ ~IsSpace(s[i]) THEN SkipWord(s, i + 1) ELSE i

\* str.split(maxsplit=n) from position i: at most n words are cut off, the
\* rest of the line (leading whitespace dropped, the remainder untouched)
\* is the last element
RECURSIVE SplitFrom(_, _, _)
SplitFrom(s, i, n) ==
    LET j == SkipSpace(s, i)
        k == SkipWord(s, j)
    IN  IF j > Len(s) THEN <<>>
        ELSE IF n = 0 THEN <<SubSeq(s, j, Len(s))>>
        ELSE <<SubSeq(s, j, k - 1)>> \o SplitFrom(s, k, n - 1)

\* str.split(maxsplit=n)
Split(s, n) == SplitFrom(s, 1, n)

\* str.split(sep) for a one-character separator: every occurrence cuts,
\* empty pieces are kept
RECURSIVE SplitOnFrom(_, _, _, _)
SplitOnFrom(s, sep, start, i) ==
    IF i > Len(s) THEN <<SubSeq(s, start, Len(s))>>
    ELSE IF s[i] = sep
         THEN <<SubSeq(s, start, i - 1)>> \o SplitOnFrom(s, sep, i + 1, i + 1)
         ELSE SplitOnFrom(s, sep, start, i + 1)

SplitOn(s, sep) == SplitOnFrom(s, sep, 1, 1)

\* re.match(r"^<open>.*<close>$", s): "." matches no newline and "$" also
\* matches just before one final newline
MatchDelimited(s, open, close) ==
    LET body == IF Len(s) > 0 /\ s[Len(s)] = "\n"
                THEN SubSeq(s, 1, Len(s) - 1) ELSE s
    IN  /\ Len(body) >= 2
        /\ body[1] = open
        /\ body[Len(body)] = close
        /\ \A i \in 1..Len(body) : body[i] # "\n"

\* str(n) for an integer n >= 0
Digit(d) == <<"0", "1", "2", "3", "4", "5", "6", "7", "8", "9">>[d + 1]

RECURSIVE IntToStr(_)
IntToStr(n) ==
    IF n < 10 THEN <<Digit(n)>> ELSE IntToStr(n \div 10) \o <<Digit(n % 10)>>

(***************************************************************************)
(* JSON-like values and json.loads.  The decoder covers objects, arrays,   *)
(* strings, integers and the literals true, false, null, with JSON         *)
(* whitespace; operand texts of the model hold no backslash, no fraction   *)
(* and no exponent.                                                        *)
(***************************************************************************)
JStr(s) == [kind |-> "str", val |-> s]
JInt(n) == [kind |-> "int", val |-> n]
JBool(b) == [kind |-> "bool", val |-> b]
JNull == [kind |-> "null", val |-> 0]
JList(l) == [kind |-> "list", val |-> l]
JDict(d) == [kind |-> "dict", val |-> d]

EmptyDict == [k \in {} |-> JNull]

IsJsonSpace(c) == c \in {" ", "\t", "\n", "\r"}
IsDigit(c) == c \in {"0", "1", "2", "3", "4", "5", "6", "7", "8", "9"}
DigitVal(c) == CHOOSE d \in 0..9 : Digit(d) = c

ScanFail == [ok |-> FALSE, val |-> JNull, pos |-> 0]
ScanOk(v, p) == [ok |-> TRUE, val |-> v, pos |-> p]

RECURSIVE SkipJsonSpace(_, _)
SkipJsonSpace(s, i) ==
    IF i <= Len(s) /\ IsJsonSpace(s[i]) THEN SkipJsonSpace(s, i + 1) ELSE i

\* the position of the quote closing a string whose text starts at i (0 if none)
RECURSIVE ClosingQuote(_, _)
ClosingQuote(s, i) ==
    IF i > Len(s) \/ s[i] \in {"\n", "\r", "\t"} THEN 0
    ELSE IF s[i] = "\"" THEN i
    ELSE ClosingQuote(s, i + 1)

\* a string whose opening quote is at i
ScanString(s, i) ==
    LET j == ClosingQuote(s, i + 1)
    IN  IF j = 0 THEN ScanFail ELSE ScanOk(SubSeq(s, i + 1, j - 1), j + 1)

\* the position after the run of digits that starts at i
RECURSIVE SkipDigits(_, _)
SkipDigits(s, i) ==
    IF i <= Len(s) /\ IsDigit(s[i]) THEN SkipDigits(s, i + 1) ELSE i

RECURSIVE DigitsVal(_, _, _)
DigitsVal(s, i, j) ==
    IF i > j THEN 0 ELSE DigitsVal(s, i, j - 1) * 10 + DigitVal(s[j])

\* an integer at i: -?(0|[1-9][0-9]*)
ScanNumber(s, i) ==
    LET neg == s[i] = "-"
        d == IF neg THEN i + 1 ELSE i
        e == IF d <= Len(s) /\ s[d] = "0" THEN d + 1 ELSE SkipDigits(s, d)
        n == DigitsVal(s, d, e - 1)
    IN  IF e = d THEN ScanFail ELSE ScanOk(JInt(IF neg THEN 0 - n ELSE n), e)

RECURSIVE ScanValue(_, _)
RECURSIVE ScanMembers(_, _, _)
RECURSIVE ScanElements(_, _, _)

\* the members of an object, the next key expected at i; a repeated key
\* keeps its last value
ScanMembers(s, i, acc) ==
    IF i > Len(s) \/ s[i] # "\"" THEN ScanFail
    ELSE LET k == ScanString(s, i)
             c == SkipJsonSpace(s, k.pos)
             v == ScanValue(s, SkipJsonSpace(s, c + 1))
             e == SkipJsonSpace(s, v.pos)
             acc2 == [x \in DOMAIN acc \cup {k.val} |->
                        IF x = k.val THEN v.val ELSE acc[x]]
         IN  IF ~k.ok THEN ScanFail
             ELSE IF c > Len(s) \/ s[c] # ":" THEN ScanFail
             ELSE IF ~v.ok THEN ScanFail
             ELSE IF e > Len(s) THEN ScanFail
             ELSE IF s[e] = "}" THEN ScanOk(JDict(acc2), e + 1)
             ELSE IF s[e] = "," THEN ScanMembers(s, SkipJsonSpace(s, e + 1), acc2)
             ELSE ScanFail

\* the elements of an array, the next value expected at i
ScanElements(s, i, acc) ==
    LET v == ScanValue(s, i)
        e == SkipJsonSpace(s, v.pos)
    IN  IF ~v.ok THEN ScanFail
        ELSE IF e > Len(s) THEN ScanFail
        ELSE IF s[e] = "]" THEN ScanOk(JList(Append(acc, v.val)), e + 1)
        ELSE IF s[e] = "," THEN ScanElements(s, SkipJsonSpace(s, e + 1), Append(acc, v.val))
        ELSE ScanFail

\* one JSON value at i
ScanValue(s, i) ==
    IF i > Len(s) THEN ScanFail
    ELSE IF s[i] = "\"" THEN ScanString(s, i)
    ELSE IF s[i] = "{" THEN
        LET j == SkipJsonSpace(s, i + 1)
        IN  IF j <= Len(s) /\ s[j] = "}" THEN ScanOk(JDict(EmptyDict), j + 1)
            ELSE ScanMembers(s, j, EmptyDict)
    ELSE IF s[i] = "[" THEN
        LET j == SkipJsonSpace(s, i + 1)
        IN  IF j <= Len(s) /\ s[j] = "]" THEN ScanOk(JList(<<>>), j + 1)
            ELSE ScanElements(s, j, <<>>)
    ELSE IF s[i] = "-" \/ IsDigit(s[i]) THEN ScanNumber(s, i)
    ELSE IF StartsWith(SubSeq(s, i, Len(s)), <<"n","u","l","l">>) THEN ScanOk(JNull, i + 4)
    ELSE IF StartsWith(SubSeq(s, i, Len(s)), <<"t","r","u","e">>) THEN ScanOk(JBool(TRUE), i + 4)
    ELSE IF StartsWith(SubSeq(s, i, Len(s)), <<"f","a","l","s","e">>) THEN ScanOk(JBool(FALSE), i + 5)
    ELSE ScanFail

\* json.loads(s): ok is FALSE where json.loads raises JSONDecodeError
JsonLoads(s) ==
    LET r == ScanValue(s, SkipJsonSpace(s, 1))
        e == SkipJsonSpace(s, r.pos)
    IN  IF r.ok /\ e = Len(s) + 1 THEN [ok |-> TRUE, val |-> r.val]
        ELSE [ok |-> FALSE, val |-> JNull]

(***************************************************************************)
(* State.                                                                  *)
(***************************************************************************)
VARIABLES
    player_names,   \* ctx.player_names: slot id -> name (slot 0 is the server)
    team,           \* ctx.team (None before the session is joined)
    slot,           \* ctx.slot (None before the session is joined)
    slot_info,      \* ctx.slot_info: slot id -> [game]
    ui,             \* ctx.ui is set (a GUI is attached)
    game,           \* DebugContext.game
    tasks,          \* send_msgs coroutines started by async_start, not yet run
    trace,          \* observable effects, in the order they happen
    history         \* one record per handler invocation: input and outcome

vars == <<player_names, team, slot, slot_info, ui, game, tasks, trace, history>>

session == <<player_names, team, slot, slot_info, ui>>

\* Python's None for ctx.team and ctx.slot
None == 0 - 1

\* str(x) for a team or slot value
PyStr(x) == IF x = None THEN <<"N","o","n","e">> ELSE IntToStr(x)

(***************************************************************************)
(* Requests of the network protocol, as the handlers build them.           *)
(***************************************************************************)
GetMsg(keys) == [cmd |-> "Get", keys |-> keys]
SetNotifyMsg(keys) == [cmd |-> "SetNotify", keys |-> keys]
SetMsg(key, operation, value) ==
    [cmd |-> "Set", key |-> key,
     operations |-> <<[operation |-> operation, value |-> value]>>]

\* f"_read_hints_{team}_{c}"
HintKey(t, c) == <<"_","r","e","a","d","_","h","i","n","t","s","_">> \o PyStr(t) \o <<"_">> \o PyStr(c)

\* what a console handler did: the message lists it passed to
\* async_start(send_msgs(..)), what it wrote with logger.info, and whether
\* it ended by raising an exception to its caller
Outcome(issued, printed, raised) ==
    [issued |-> issued, printed |-> printed, raised |-> raised]

(***************************************************************************)
(* DebugCommandProcessor.                                                  *)
(***************************************************************************)
\* _cmd_manget
CmdManget(key) ==
    LET keys == IF \E i \in 1..Len(key) : key[i] = " "
                THEN SplitOn(key, " ") ELSE <<key>>
    IN  Outcome(<< <<GetMsg(keys)>> >>, <<>>, FALSE)

\* help_text of _cmd_manset (its line breaks written as |)
help_text == "Format: /manset key operation value | Operations: replace, default, add, mul, pow, mod, floor, ceil, max, min, and, or, xor, left_shift, right_shift, remove, pop, update | For details on all operations, use /manset help OPERATION"

\* the operations table of _cmd_manset (the descriptions without their
\* backquotes and apostrophe)
operations ==
    (<<"r","e","p","l","a","c","e">> :> "Sets the current value of the key to value.") @@
    (<<"d","e","f","a","u","l","t">> :> "If the key has no value yet, sets the current value of the key to default of the Set package (value is ignored).") @@
    (<<"a","d","d">> :> "Adds value to the current value of the key, if both the current value and value are arrays then value will be appended to the current value.") @@
    (<<"m","u","l">> :> "Multiplies the current value of the key by value.") @@
    (<<"p","o","w">> :> "Multiplies the current value of the key to the power of value.") @@
    (<<"m","o","d">> :> "Sets the current value of the key to the remainder after division by value.") @@
    (<<"f","l","o","o","r">> :> "Floors the current value (value is ignored).") @@
    (<<"c","e","i","l">> :> "Ceils the current value (value is ignored).") @@
    (<<"m","a","x">> :> "Sets the current value of the key to value if value is bigger.") @@
    (<<"m","i","n">> :> "Sets the current value of the key to value if value is lower.") @@
    (<<"a","n","d">> :> "Applies a bitwise AND to the current value of the key with value.") @@
    (<<"o","r">> :> "Applies a bitwise OR to the current value of the key with value.") @@
    (<<"x","o","r">> :> "Applies a bitwise Exclusive OR to the current value of the key with value.") @@
    (<<"l","e","f","t","_","s","h","i","f","t">> :> "Applies a bitwise left-shift to the current value of the key by value.") @@
    (<<"r","i","g","h","t","_","s","h","i","f","t">> :> "Applies a bitwise right-shift to the current value of the key by value.") @@
    (<<"r","e","m","o","v","e">> :> "List only: removes the first instance of value found in the list.") @@
    (<<"p","o","p">> :> "List or Dict: for lists it will remove the index of the value given. for dicts it removes the element with the specified key of value.") @@
    (<<"u","p","d","a","t","e">> :> "Dict only: Updates the dictionary with the specified elements given in value creating new keys, or updating old ones if they previously existed.")

\* the two texts _cmd_manset writes with logger.info
GeneralHelp == [what |-> "help_text", text |-> help_text]
OperationHelp(op) == [what |-> "operation", operation |-> op, effect |-> operations[op]]

\* the help branch of _cmd_manset: args[1] raises IndexError when the line
\* has one word or none, and the bare except prints help_text
MansetHelp(raw) ==
    LET args == Split(raw, 1)
    IN  IF Len(args) < 2 THEN Outcome(<<>>, <<GeneralHelp>>, FALSE)
        ELSE IF args[2] \in DOMAIN operations
             THEN Outcome(<<>>, <<OperationHelp(args[2])>>, FALSE)
             ELSE Outcome(<<>>, <<>>, FALSE)

\* the operand parsing without its list step: a [..] text is sent as a string
ParseOperandNoList(text) ==
    IF MatchDelimited(text, "{", "}") THEN JsonLoads(text)
    ELSE [ok |-> TRUE, val |-> JStr(text)]

\* the operand parsing of _cmd_manset: ok is FALSE where json.loads raises
ParseOperand(text) ==
    IF MatchDelimited(text, "{", "}") THEN JsonLoads(text)
    ELSE IF MatchDelimited(text, "[", "]")
         THEN [ok |-> TRUE,
               val |-> JList([i \in 1..Len(SplitOn(SubSeq(text, 2, Len(text) - 1), ",")) |->
                                JStr(SplitOn(SubSeq(text, 2, Len(text) - 1), ",")[i])])]
         ELSE [ok |-> TRUE, val |-> JStr(text)]

\* the mutation branch of _cmd_manset: args[0], args[1], args[2] raise
\* IndexError when the line has fewer than three segments
MansetSet(raw) ==
    LET args == Split(raw, 2)
        value == ParseOperand(args[3])
    IN  IF Len(args) < 3 THEN Outcome(<<>>, <<>>, TRUE)
        ELSE IF ~value.ok THEN Outcome(<<>>, <<>>, TRUE)
        ELSE Outcome(<< <<SetMsg(args[1], args[2], value.val)>> >>, <<>>, FALSE)

\* _cmd_manset
CmdManset(raw) ==
    IF StartsWith(raw, <<"h","e","l","p">>) \/ raw = <<>> THEN MansetHelp(raw) ELSE MansetSet(raw)

\* allhints with its range starting at 0
CmdAllhintsFromZero ==
    LET count == Cardinality(DOMAIN player_names)
    IN  Outcome([c \in 1..count |-> <<GetMsg(<<HintKey(team, c - 1)>>)>>], <<>>, FALSE)

\* _cmd_allhints
CmdAllhints ==
    LET count == Cardinality(DOMAIN player_names)
    IN  Outcome([c \in 1..(count - 1) |-> <<GetMsg(<<HintKey(team, c)>>)>>], <<>>, FALSE)

\* mansub with its two lines exchanged
CmdMansubGetFirst(key) ==
    Outcome(<< <<GetMsg(<<key>>)>>, <<SetNotifyMsg(<<key>>)>> >>, <<>>, FALSE)

\* _cmd_mansub
CmdMansub(key) ==
    Outcome(<< <<SetNotifyMsg(<<key>>)>>, <<GetMsg(<<key>>)>> >>, <<>>, FALSE)

(***************************************************************************)
(* Effects.                                                                *)
(***************************************************************************)
LogEvent(inv, what, data) == [ev |-> "log", inv |-> inv, what |-> what, data |-> data]
SendEvent(inv, msgs) == [ev |-> "send", inv |-> inv, what |-> "msgs", data |-> msgs]
PrintEvent(inv, output) == [ev |-> "print", inv |-> inv, what |-> "output", data |-> output]
UiEvent(inv) == [ev |-> "update_hints", inv |-> inv, what |-> "ui", data |-> <<>>]

\* async_start(self.ctx.send_msgs(msgs)) for each message list, in call order:
\* each call creates one task, queued behind the tasks created before it
AsyncStart(inv, issued) ==
    tasks \o [i \in 1..Len(issued) |-> [inv |-> inv, msgs |-> issued[i]]]

\* a console handler runs to completion: its logger.info lines are written,
\* its send tasks are queued, its outcome is recorded
RunCommand(cmd, input, out) ==
    LET inv == Len(history) + 1
    IN  /\ Len(history) < MaxSteps
        /\ history' = Append(history, [cmd |-> cmd, input |-> input, issued |-> out.issued,
                                       printed |-> out.printed, raised |-> out.raised])
        /\ tasks' = AsyncStart(inv, out.issued)
        /\ trace' = trace \o [i \in 1..Len(out.printed) |-> LogEvent(inv, "help", out.printed[i])]
        /\ UNCHANGED <<session, game>>

Manget(input) == RunCommand("manget", input, CmdManget(input.raw))
Manset(input) == RunCommand("manset", input, CmdManset(input.raw))
Mansub(input) == RunCommand("mansub", input, CmdMansub(input.raw))
Allhints == RunCommand("allhints", [raw |-> <<>>], CmdAllhints)

\* send_msgs without its logger.info line
SendMsgsUnlogged ==
    /\ tasks # <<>>
    /\ trace' = trace \o <<SendEvent(Head(tasks).inv, Head(tasks).msgs)>>
    /\ tasks' = Tail(tasks)
    /\ UNCHANGED <<session, game, history>>

\* DebugContext.send_msgs, run by the event loop for the oldest queued task:
\* async_start creates an asyncio task per call, and the loop starts tasks in
\* the order they were created.  The coroutine logs the message list and
\* then passes it to CommonContext.send_msgs, with no await in between.
SendMsgs ==
    /\ tasks # <<>>
    /\ LET t == Head(tasks)
       IN  trace' = trace \o <<LogEvent(t.inv, "msgs", t.msgs), SendEvent(t.inv, t.msgs)>>
    /\ tasks' = Tail(tasks)
    /\ UNCHANGED <<session, game, history>>

(***************************************************************************)
(* DebugContext.on_package.  A packet is the args dict (cmd included); its *)
(* "keys" dict, when present, is the sequence of its [key, value] items in *)
(* dict order.  A hint record is a record of the fields the server sent.   *)
(***************************************************************************)
HintFields == {"found", "receiving_player", "item", "item_flags", "location", "finding_player"}

\* the status fragment with its condition inverted
FoundTextInverted(hint) ==
    IF ~hint.found
    THEN [text |-> "(found)", type |-> "color", color |-> "green"]
    ELSE [text |-> "(not found)", type |-> "color", color |-> "red"]

\* the found/not found fragment
FoundText(hint) ==
    IF hint.found
    THEN [text |-> "(found)", type |-> "color", color |-> "green"]
    ELSE [text |-> "(not found)", type |-> "color", color |-> "red"]

\* the PrintJSON packet reassembled from one hint record
HintOutput(hint) ==
    [cmd |-> "PrintJSON",
     data |-> << [text |-> "[Hint]: "],
                 [text |-> hint.receiving_player, type |-> "player_id"],
                 [text |-> "'s "],
                 [text |-> hint.item, player |-> hint.receiving_player,
                  flags |-> hint.item_flags, type |-> "item_id"],
                 [text |-> " is at "],
                 [text |-> hint.location, player |-> hint.finding_player,
                  type |-> "location_id"],
                 [text |-> " in "],
                 [text |-> hint.finding_player, type |-> "player_id"],
                 [text |-> "'s World"],
                 [text |-> ". "],
                 FoundText(hint) >>,
     type |-> "Hint",
     receiving |-> hint.receiving_player,
     item |-> [item |-> hint.item, location |-> hint.location,
               player |-> hint.finding_player, flags |-> 1],
     found |-> FALSE]

Reshaped(out, raised) == [out |-> out, raised |-> raised]

\* "for hint in value" over a list of records from position i: a record with
\* a field missing raises KeyError before its output is built, and what was
\* displayed before stays displayed
RECURSIVE ReshapeRecords(_, _)
ReshapeRecords(hints, i) ==
    IF i > Len(hints) THEN Reshaped(<<>>, FALSE)
    ELSE IF ~(HintFields \subseteq DOMAIN hints[i]) THEN Reshaped(<<>>, TRUE)
    ELSE LET rest == ReshapeRecords(hints, i + 1)
         IN  Reshaped(<<HintOutput(hints[i])>> \o rest.out, rest.raised)

\* "for hint in args['keys'][arg]": a list gives its records; an empty str or
\* dict gives nothing; a non-empty str or dict gives str items, and
\* hint["found"] raises TypeError; None, numbers and booleans are not iterable
ReshapeValue(value) ==
    IF value.kind = "list" THEN ReshapeRecords(value.val, 1)
    ELSE IF value.kind = "str" THEN Reshaped(<<>>, value.val # <<>>)
    ELSE IF value.kind = "dict" THEN Reshaped(<<>>, DOMAIN value.val # {})
    ELSE Reshaped(<<>>, TRUE)

\* "for arg in args['keys'].keys()" from position i
RECURSIVE ReshapeKeys(_, _)
ReshapeKeys(keys, i) ==
    IF i > Len(keys) THEN Reshaped(<<>>, FALSE)
    ELSE IF ~StartsWith(keys[i].key, <<"_","r","e","a","d","_","h","i","n","t","s","_">>) THEN ReshapeKeys(keys, i + 1)
    ELSE LET here == ReshapeValue(keys[i].value)
             rest == ReshapeKeys(keys, i + 1)
         IN  IF here.raised THEN here
             ELSE Reshaped(here.out \o rest.out, rest.raised)

\* args.get("keys") is truthy
HasKeys(args) == "keys" \in DOMAIN args /\ args.keys # <<>>

\* on_package.  process_server_cmd fills ctx.slot and ctx.slot_info from a
\* Connected packet before it calls on_package, so such a packet is only
\* delivered once the slot is known.
OnPackage(args) ==
    LET inv == Len(history) + 1
        handled == args.cmd \in {"Retrieved", "SetReply"} /\ HasKeys(args)
        refresh == /\ handled
                   /\ ui
                   /\ \E i \in 1..Len(args.keys) : args.keys[i].key = HintKey(team, slot)
        r == IF handled THEN ReshapeKeys(args.keys, 1) ELSE Reshaped(<<>>, FALSE)
    IN  /\ Len(history) < MaxSteps
        /\ args.cmd = "Connected" => slot \in DOMAIN slot_info
        /\ game' = IF args.cmd = "Connected" THEN slot_info[slot].game ELSE game
        /\ trace' = trace \o <<LogEvent(inv, "packet", args)>>
                          \o (IF refresh THEN <<UiEvent(inv)>> ELSE <<>>)
                          \o [i \in 1..Len(r.out) |-> PrintEvent(inv, r.out[i])]
        /\ history' = Append(history, [cmd |-> "on_package", input |-> [args |-> args],
                                       issued |-> <<>>, printed |-> <<>>,
                                       raised |-> r.raised])
        /\ UNCHANGED <<session, tasks>>

(***************************************************************************)
(* Inputs: console lines and inbound packets.                              *)
(***************************************************************************)
MansetKeys == {<<"f","o","o">>, <<"h","e","l","p","e","r">>}
MansetOperations == {<<"a","d","d">>, <<"b","o","g","u","s","_","o","p">>}
MansetOperands ==
    {<<"5">>, <<"h","e","l","l","o"," ","w","o","r","l","d">>, <<"[","a",",","b",",","c","]">>, <<"[","]">>, <<"{","\"","a","\"",":"," ","1","}">>, <<"{","}">>, <<"{","b","a","d","}">>, <<"[","a","}">>}

\* the line "<key> <operation> <operand>", with the parts it was typed from
WellFormed(k, o, v) ==
    [raw |-> k \o <<" ">> \o o \o <<" ">> \o v,
     wellformed |-> TRUE, key |-> k, operation |-> o, operand |-> v]

\* any other line
Line(raw) ==
    [raw |-> raw, wellformed |-> FALSE, key |-> <<>>, operation |-> <<>>, operand |-> <<>>]

HelpLines == {Line(<<"h","e","l","p">>), Line(<<"h","e","l","p"," ","r","e","p","l","a","c","e">>), Line(<<"h","e","l","p"," ","b","o","g","u","s","_","o","p">>), Line(<<>>)}
ShortLines == {Line(<<"f","o","o">>), Line(<<"f","o","o"," ","a","d","d">>)}

MansetLines ==
    {WellFormed(k, o, v) : k \in MansetKeys, o \in MansetOperations, v \in MansetOperands}
        \cup HelpLines \cup ShortLines

\* the manset lines of the whole-client specification
CoreMansetLines ==
    {WellFormed(<<"f","o","o">>, <<"a","d","d">>, <<"5">>), WellFormed(<<"f","o","o">>, <<"a","d","d">>, <<"{","b","a","d","}">>),
     Line(<<"h","e","l","p">>), Line(<<"f","o","o">>)}

MangetLines == {Line(<<"f","o","o">>), Line(<<"f","o","o"," ","b","a","r">>), Line(<<>>)}
MansubLines == {Line(<<"f","o","o">>), Line(<<"_","r","e","a","d","_","h","i","n","t","s","_","0","_","1">>)}

Hint1 == [receiving_player |-> 2, item |-> 10, item_flags |-> 1, location |-> 5,
          finding_player |-> 3, found |-> TRUE]
Hint2 == [receiving_player |-> 1, item |-> 11, item_flags |-> 0, location |-> 6,
          finding_player |-> 2, found |-> FALSE]
\* a record that lacks fields
HintPartial == [receiving_player |-> 2, item |-> 10]

Item(k, v) == [key |-> k, value |-> v]

\* "keys" dicts of inbound packets
KeyTables ==
    << <<Item(<<"_","r","e","a","d","_","h","i","n","t","s","_","0","_","1">>, JList(<<Hint1, Hint2>>))>>,
       <<Item(<<"_","r","e","a","d","_","h","i","n","t","s","_","0","_","1">>, JList(<<Hint1>>)), Item(<<"f","o","o">>, JInt(5)),
         Item(<<"_","r","e","a","d","_","h","i","n","t","s","_","0","_","2">>, JList(<<Hint2>>))>>,
       <<Item(<<"_","r","e","a","d","_","h","i","n","t","s","_","0","_","9">>, JNull), Item(<<"_","r","e","a","d","_","h","i","n","t","s","_","0","_","1">>, JList(<<Hint1>>))>>,
       <<Item(<<"_","r","e","a","d","_","h","i","n","t","s","_","0","_","1">>, JList(<<Hint2, HintPartial>>))>>,
       <<Item(<<"_","r","e","a","d","_","h","i","n","t","s","_","0","_","2">>, JList(<<>>))>>,
       <<Item(<<"f","o","o">>, JInt(5))>>,
       <<>> >>

PacketCmds == <<"Retrieved", "SetReply", "PrintJSON">>

\* inbound packets: every command with every "keys" dict, and packets
\* without a "keys" field
Packets ==
    [i \in 1..(Len(PacketCmds) * Len(KeyTables)) |->
        [cmd |-> PacketCmds[((i - 1) \div Len(KeyTables)) + 1],
         keys |-> KeyTables[((i - 1) % Len(KeyTables)) + 1]]]
    \o << [cmd |-> "SetReply", key |-> <<"f","o","o">>, value |-> JInt(5)],
          [cmd |-> "Connected", team |-> 0, slot |-> 1] >>

\* the packets of the whole-client specification
CorePackets ==
    << [cmd |-> "Retrieved", keys |-> KeyTables[1]],
       [cmd |-> "Retrieved", keys |-> KeyTables[3]],
       [cmd |-> "SetReply", key |-> <<"f","o","o">>, value |-> JInt(5)],
       [cmd |-> "Connected", team |-> 0, slot |-> 1] >>

(***************************************************************************)
(* Sessions: before the session is joined the table holds the server's     *)
(* slot 0 only; after, the slots 1..n-1 with their games.                  *)
(***************************************************************************)
Teams == {0, 1}

PlayerTable(n) == [p \in 0..(n - 1) |-> IF p = 0 THEN "Archipelago" ELSE "Player"]
SlotTable(n) == [p \in 1..(n - 1) |-> [game |-> "Clique"]]

Joined(n, t, s) ==
    /\ player_names = PlayerTable(n)
    /\ slot_info = SlotTable(n)
    /\ team = t
    /\ slot = s

NotJoined == Joined(1, None, None)

InitClient ==
    /\ game = ""
    /\ tasks = <<>>
    /\ trace = <<>>
    /\ history = <<>>

Init ==
    /\ InitClient
    /\ ui \in BOOLEAN
    /\ \/ NotJoined
       \/ \E n \in 2..MaxPlayers, t \in Teams, s \in 1..(MaxPlayers - 1) :
            s < n /\ Joined(n, t, s)

\* the session does not matter to manset: one joined session
InitManset ==
    /\ InitClient
    /\ ui = FALSE
    /\ Joined(2, 0, 1)

\* the whole client
Next ==
    \/ \E input \in MangetLines : Manget(input)
    \/ \E input \in CoreMansetLines : Manset(input)
    \/ \E input \in MansubLines : Mansub(input)
    \/ Allhints
    \/ \E i \in 1..Len(CorePackets) : OnPackage(CorePackets[i])
    \/ SendMsgs

Spec == Init /\ [][Next]_vars

\* the operator only types manset lines
NextManset ==
    \/ \E input \in MansetLines : Manset(input)
    \/ SendMsgs

SpecManset == InitManset /\ [][NextManset]_vars

\* the server only pushes packets
NextNet == \E i \in 1..Len(Packets) : OnPackage(Packets[i])

SpecNet == Init /\ [][NextNet]_vars

(***************************************************************************)
(* Properties.                                                             *)
(***************************************************************************)
Invocations == 1..Len(history)

\* the events of one kind that invocation i caused, in order
EventsOf(i, ev) == SelectSeq(trace, LAMBDA e : e.ev = ev /\ e.inv = i)

\* the send tasks of invocation i that have not run yet
PendingOf(i) == SelectSeq(tasks, LAMBDA t : t.inv = i)

\* the requests of one command in a sequence of message lists
RECURSIVE CountCmd(_, _)
CountCmd(lists, cmd) ==
    IF lists = <<>> THEN 0
    ELSE Len(SelectSeq(Head(lists), LAMBDA m : m.cmd = cmd)) + CountCmd(Tail(lists), cmd)

RECURSIVE CountIssued(_, _)
CountIssued(n, cmd) ==
    IF n = 0 THEN 0 ELSE CountCmd(history[n].issued, cmd) + CountIssued(n - 1, cmd)

\* a well-formed manset line whose operand, if brace-delimited, is valid JSON
IsMutation(i) ==
    /\ history[i].cmd = "manset"
    /\ history[i].input.wellformed
    /\ ParseOperand(history[i].input.operand).ok

\* C1: every well-formed "manset <key> <operation> <operand>" issues exactly
\* one message list holding exactly one Set request for <key> with exactly one
\* operation, named <operation> as typed, and over any sequence of manset
\* lines there are as many Set requests as well-formed invocations.
C1_OneSetPerInvocation ==
    /\ \A i \in Invocations :
          IsMutation(i) =>
             /\ Len(history[i].issued) = 1
             /\ Len(history[i].issued[1]) = 1
             /\ history[i].issued[1][1].cmd = "Set"
             /\ history[i].issued[1][1].key = history[i].input.key
             /\ Len(history[i].issued[1][1].operations) = 1
             /\ history[i].issued[1][1].operations[1].operation = history[i].input.operation
    /\ CountIssued(Len(history), "Set") = Cardinality({i \in Invocations : IsMutation(i)})

\* the pieces joined with commas
RECURSIVE JoinComma(_)
JoinComma(pieces) ==
    IF Len(pieces) = 0 THEN <<>>
    ELSE IF Len(pieces) = 1 THEN pieces[1].val
    ELSE pieces[1].val \o <<",">> \o JoinComma(Tail(pieces))

Braced(text) == Len(text) >= 2 /\ text[1] = "{" /\ text[Len(text)] = "}"
Bracketed(text) == Len(text) >= 2 /\ text[1] = "[" /\ text[Len(text)] = "]"

\* the value the three-step policy gives the operand text
FollowsPolicy(text, value) ==
    IF Braced(text) THEN
        /\ value.kind = "dict"
        /\ text = <<"{","\"","a","\"",":"," ","1","}">> => value.val = (<<"a">> :> JInt(1))
        /\ text = <<"{","}">> => DOMAIN value.val = {}
    ELSE IF Bracketed(text) THEN
        /\ value.kind = "list"
        /\ \A p \in 1..Len(value.val) :
              /\ value.val[p].kind = "str"
              /\ \A c \in 1..Len(value.val[p].val) : value.val[p].val[c] # ","
        /\ JoinComma(value.val) = SubSeq(text, 2, Len(text) - 1)
        /\ text = <<"[","a",",","b",",","c","]">> => value.val = <<JStr(<<"a">>), JStr(<<"b">>), JStr(<<"c">>)>>
    ELSE
        /\ value.kind = "str"
        /\ value.val = text

\* C2: the value of every Set request a manset line issues follows the
\* three-step operand policy: a {..} text is a JSON mapping, else a [..] text
\* is its inner text split on every comma, else the whole text is one string.
C2_OperandPolicy ==
    \A i \in Invocations :
        (history[i].cmd = "manset" /\ history[i].input.wellformed) =>
            \A j \in 1..Len(history[i].issued) :
                \A k \in 1..Len(history[i].issued[j]) :
                    \A o \in 1..Len(history[i].issued[j][k].operations) :
                        FollowsPolicy(history[i].input.operand,
                                      history[i].issued[j][k].operations[o].value)

\* a Set request built from each of the three kinds of operand has been
\* handed to the transport
C2_Witness ==
    /\ \E p \in 1..Len(trace) :
          /\ trace[p].ev = "send"
          /\ history[trace[p].inv].cmd = "manset"
          /\ history[trace[p].inv].input.operand = <<"[","a",",","b",",","c","]">>
    /\ \E i \in Invocations :
          /\ history[i].cmd = "manset"
          /\ history[i].input.operand = <<"{","\"","a","\"",":"," ","1","}">>
          /\ history[i].issued # <<>>

\* C3: "manset help" and "manset help <op>" with a listed <op> print a
\* non-empty help, "manset help <x>" with an unlisted <x> prints the general
\* list of operations, and none of the three sends a request.
C3_HelpOutput ==
    \A i \in Invocations :
        (history[i].cmd = "manset"
            /\ history[i].input.raw \in {<<"h","e","l","p">>, <<"h","e","l","p"," ","r","e","p","l","a","c","e">>, <<"h","e","l","p"," ","b","o","g","u","s","_","o","p">>}) =>
            /\ history[i].printed # <<>>
            /\ history[i].input.raw = <<"h","e","l","p"," ","b","o","g","u","s","_","o","p">> => history[i].printed = <<GeneralHelp>>
            /\ history[i].issued = <<>>

\* C4: a manset line that does not start with "help" and has fewer than three
\* segments prints the general help, raises nothing and sends nothing.
C4_ShortLineFallsBackToHelp ==
    \A i \in Invocations :
        (history[i].cmd = "manset"
            /\ ~StartsWith(history[i].input.raw, <<"h","e","l","p">>)
            /\ history[i].input \in ShortLines) =>
            /\ history[i].printed = <<GeneralHelp>>
            /\ ~history[i].raised
            /\ history[i].issued = <<>>

\* "_read_hints_<team>_<c>" for one-digit team and player index
C5_Key(t, c) == <<"_","r","e","a","d","_","h","i","n","t","s","_">> \o <<Digit(t)>> \o <<"_">> \o <<Digit(c)>>

\* C5: with count known players, allhints issues exactly count - 1 separate
\* Get requests, the c-th for the key of player index c and the current team,
\* none for index 0.
C5_AllhintsRequests ==
    \A i \in Invocations :
        history[i].cmd = "allhints" =>
            LET count == Cardinality(DOMAIN player_names)
            IN  /\ Len(history[i].issued) = count - 1
                /\ Len(EventsOf(i, "send")) + Len(PendingOf(i)) = count - 1
                /\ \A c \in 1..(count - 1) :
                      history[i].issued[c] = <<[cmd |-> "Get", keys |-> <<C5_Key(team, c)>>]>>
                /\ \A c \in 1..Len(history[i].issued) :
                      history[i].issued[c][1].keys[1] # C5_Key(team, 0)

\* allhints ran in a session of three players and both requests were sent
C5_Witness ==
    \E i \in Invocations :
        /\ history[i].cmd = "allhints"
        /\ Cardinality(DOMAIN player_names) = 3
        /\ Len(EventsOf(i, "send")) = 2

\* C6: one mansub issues exactly two messages for its key, a SetNotify and a
\* Get, and the Get is never handed to the transport before the SetNotify.
C6_SubscribeBeforeGet ==
    \A i \in Invocations :
        history[i].cmd = "mansub" =>
            LET sent == EventsOf(i, "send")
                key == history[i].input.raw
            IN  /\ Len(sent) + Len(PendingOf(i)) = 2
                /\ Len(sent) >= 1 => sent[1].data = <<[cmd |-> "SetNotify", keys |-> <<key>>]>>
                /\ Len(sent) >= 2 => sent[2].data = <<[cmd |-> "Get", keys |-> <<key>>]>>
                /\ Len(sent) = 0 =>
                      PendingOf(i)[1].msgs = <<[cmd |-> "SetNotify", keys |-> <<key>>]>>

\* both messages of a mansub were sent, another command's request between them
\* in the queue or not
C6_Witness ==
    \E i \in Invocations :
        /\ history[i].cmd = "mansub"
        /\ Len(EventsOf(i, "send")) = 2
        /\ Len(history) = 2

\* the hint records a packet holds under its hint keys
RECURSIVE RecordsOf(_, _)
RecordsOf(keys, i) ==
    IF i > Len(keys) THEN <<>>
    ELSE (IF StartsWith(keys[i].key, <<"_","r","e","a","d","_","h","i","n","t","s","_">>) /\ keys[i].value.kind = "list"
          THEN SelectSeq(keys[i].value.val, LAMBDA h : HintFields \subseteq DOMAIN h)
          ELSE <<>>) \o RecordsOf(keys, i + 1)

Typed(f, type) == "type" \in DOMAIN f /\ f.type = type

\* the fragments of a display event render record h in the order receiving
\* player, item, location, finding player, status
Renders(data, h) ==
    \E p1, p2, p3, p4, p5 \in 1..Len(data) :
        /\ p1 < p2 /\ p2 < p3 /\ p3 < p4 /\ p4 < p5
        /\ Typed(data[p1], "player_id") /\ data[p1].text = h.receiving_player
        /\ Typed(data[p2], "item_id") /\ data[p2].text = h.item
        /\ data[p2].flags = h.item_flags /\ data[p2].player = h.receiving_player
        /\ Typed(data[p3], "location_id") /\ data[p3].text = h.location
        /\ data[p3].player = h.finding_player
        /\ Typed(data[p4], "player_id") /\ data[p4].text = h.finding_player
        /\ p5 = Len(data)
        /\ Typed(data[p5], "color")
        /\ data[p5].text = (IF h.found THEN "(found)" ELSE "(not found)")
        /\ data[p5].color = (IF h.found THEN "green" ELSE "red")

\* C7: every display event of the notification handler renders one hint record
\* of its packet: receiving player, item (with the record's flags and the
\* receiving player), location (with the finding player), finding player,
\* status, in that order, the status "(found)" in green exactly when the
\* record's found is true and "(not found)" in red otherwise.
C7_FragmentOrder ==
    \A p \in 1..Len(trace) :
        trace[p].ev = "print" =>
            LET records == RecordsOf(history[trace[p].inv].input.args.keys, 1)
                nth == Len(SelectSeq(SubSeq(trace, 1, p),
                                     LAMBDA e : e.ev = "print" /\ e.inv = trace[p].inv))
            IN  /\ nth <= Len(records)
                /\ Renders(trace[p].data.data, records[nth])

\* a found and a not-found record have both been displayed
C7_Witness ==
    /\ \E p \in 1..Len(trace) :
          trace[p].ev = "print" /\ trace[p].data.data[11].text = "(found)"
    /\ \E p \in 1..Len(trace) :
          trace[p].ev = "print" /\ trace[p].data.data[11].text = "(not found)"

\* C8: every message list handed to the parent transport was written
\* unchanged to the log just before, and every inbound packet is written
\* unchanged to the log before any display event derived from it.
C8_MirroredToLog ==
    /\ \A p \in 1..Len(trace) :
          trace[p].ev = "send" =>
             /\ p > 1
             /\ trace[p - 1].ev = "log"
             /\ trace[p - 1].what = "msgs"
             /\ trace[p - 1].data = trace[p].data
    /\ \A i \in Invocations :
          history[i].cmd = "on_package" =>
             \E p \in 1..Len(trace) :
                /\ trace[p].ev = "log"
                /\ trace[p].what = "packet"
                /\ trace[p].inv = i
                /\ trace[p].data = history[i].input.args
                /\ \A q \in 1..Len(trace) :
                      (trace[q].ev = "print" /\ trace[q].inv = i) => p < q

\* a request has been sent and a packet has produced a display event
C8_Witness ==
    /\ \E p \in 1..Len(trace) : trace[p].ev = "send"
    /\ \E p \in 1..Len(trace) : trace[p].ev = "print"

\* C9: no handler raises an error to its caller, whatever the console line or
\* the inbound packet.
C9_NoHandlerRaises == \A i \in Invocations : ~history[i].raised

\* C10: the display events of a packet are as many as the hint records under
\* its hint keys when the packet is a Retrieved or SetReply with keys, none
\* otherwise, and the handler starts no send task.
C10_OneEventPerRecord ==
    \A i \in Invocations :
        history[i].cmd = "on_package" =>
            LET args == history[i].input.args
                expected == IF args.cmd \in {"Retrieved", "SetReply"} /\ "keys" \in DOMAIN args
                            THEN Len(RecordsOf(args.keys, 1)) ELSE 0
            IN  /\ Len(EventsOf(i, "print")) = expected
                /\ history[i].issued = <<>>
                /\ PendingOf(i) = <<>>

====
